---- MODULE Spec2Model ----
(***************************************************************************)
(* randstream: generation and validation of a seeded random stream whose   *)
(* chunks each end with the CRC of their payload.  The model follows       *)
(* src/src/generate.rs, src/src/validate.rs and src/src/lib.rs.            *)
(*                                                                         *)
(* Widths are scaled so that every value fits TLC's integers: the checksum *)
(* is a reflected 16 bit CRC (initial value and final xor all ones, as     *)
(* CRC-32) that is still stored in a 4 byte little-endian trailer, and the *)
(* generator is a multiplicative congruential generator modulo 2^16 that   *)
(* emits one 8 byte word per step, as Pcg64Mcg does.                       *)
(*                                                                         *)
(* SpecGen is one run of generate with every argument and a file that may  *)
(* exist already.  Spec is a run of generate on a new file or to the       *)
(* standard output, followed by a run of validate on what it wrote, with   *)
(* at most one byte changed in between.                                    *)
(***************************************************************************)
EXTENDS Integers, Sequences, FiniteSets, TLC

(* ------------------------------ bounds --------------------------------- *)
MaxSeed == 0
MaxChunkSize == 9
MaxChunks == 3
MaxJobs == 3
MaxFaults == 2

(* -------------------------- program constants -------------------------- *)
WordSize == 8
TrailerSize == 4
ProgressPeriod == 100

CrcPoly == 40961
CrcMask == 65535
RngModulus == 65536
RngMultiplier == 12829
SeedSpread == 2731

NoSize == -1

Min(a, b) == IF a < b THEN a ELSE b

DivCeil(a, b) == (a + b - 1) \div b

(* ------------------------------- bytes --------------------------------- *)
RECURSIVE XorBits(_, _)
XorBits(a, b) ==
    IF a = 0 THEN b
    ELSE IF b = 0 THEN a
    ELSE ((a + b) % 2) + 2 * XorBits(a \div 2, b \div 2)

XorByteTable == [a \in 0..255 |-> [b \in 0..255 |-> XorBits(a, b)]]

Xor(a, b) ==
    XorByteTable[a % 256][b % 256] + 256 * XorByteTable[a \div 256][b \div 256]

SubSeqFrom(s, from, to) == [k \in 1..(to - from) |-> s[from + k]]

Zeros(n) == [k \in 1..n |-> 0]

(* --------------------------- crc32fast::Hasher -------------------------- *)
RECURSIVE CrcShift(_, _)
CrcShift(c, n) ==
    IF n = 0 THEN c
    ELSE CrcShift(IF c % 2 = 1 THEN Xor(c \div 2, CrcPoly) ELSE c \div 2, n - 1)

CrcTable == [b \in 0..255 |-> CrcShift(b, 8)]

CrcByte(c, b) == Xor(CrcTable[Xor(c % 256, b)], c \div 256)

\* the loop over the bytes from the k-th on, as a function of the register
\* and of the index of the next byte
CrcRaw(c, bytes, k) ==
    LET loop[p \in (0..CrcMask) \X (1..(Len(bytes) + 1))] ==
            IF p[2] > Len(bytes) THEN p[1]
            ELSE loop[<< CrcByte(p[1], bytes[p[2]]), p[2] + 1 >>]
    IN  loop[<< c, k >>]

CrcUpdate(crc, bytes) == Xor(CrcRaw(Xor(crc, CrcMask), bytes, 1), CrcMask)

\* the register after n bytes 0, as a function of the register and of the
\* number of bytes left
CrcZeros(c, n) ==
    LET loop[p \in (0..CrcMask) \X (0..n)] ==
            IF p[2] = 0 THEN p[1] ELSE loop[<< CrcByte(p[1], 0), p[2] - 1 >>]
    IN  loop[<< c, n >>]

CrcCombine(crc1, crc2, len2) ==
    IF len2 = 0 THEN crc1 ELSE Xor(CrcZeros(crc1, len2), crc2)

HasherNew == [state |-> 0, amount |-> 0]

HasherUpdate(h, bytes) ==
    [state |-> CrcUpdate(h.state, bytes), amount |-> h.amount + Len(bytes)]

HasherFinalize(h) == h.state

HasherCombine(h, other) ==
    [state |-> CrcCombine(h.state, HasherFinalize(other), other.amount),
     amount |-> h.amount + other.amount]

\* a u32 is kept as two 16 bit halves; the CRC occupies the low half
U32(crc) == [lo |-> crc, hi |-> 0]

\* the bytes of a u32 in big-endian order
ToBeBytes(u) == << u.hi \div 256, u.hi % 256, u.lo \div 256, u.lo % 256 >>

ToLeBytes(u) == << u.lo % 256, u.lo \div 256, u.hi % 256, u.hi \div 256 >>

\* a trailer of which only the first two bytes are read
FromLeBytesLowHalf(b) == [lo |-> b[1] + 256 * b[2], hi |-> 0]

FromLeBytes(b) == [lo |-> b[1] + 256 * b[2], hi |-> b[3] + 256 * b[4]]

(* --------------------------- rand_pcg::Pcg64Mcg ------------------------- *)
RngSeed(s) == (2 * ((s + 1) * SeedSpread) + 1) % RngModulus

RngStep(state) == (state * RngMultiplier) % RngModulus

RECURSIVE PowMod(_, _)
PowMod(base, e) ==
    IF e = 0 THEN 1
    ELSE IF e % 2 = 1 THEN (base * PowMod(base, e - 1)) % RngModulus
    ELSE PowMod((base * base) % RngModulus, e \div 2)

\* a jump that multiplies by the step count instead of raising to it
RngAdvanceLinear(state, delta) ==
    IF delta = 0 THEN state ELSE (state * RngMultiplier * delta) % RngModulus

RngAdvance(state, delta) == (state * PowMod(RngMultiplier, delta)) % RngModulus

RngOutput(state) ==
    [j \in 1..WordSize |->
        ((state \div 256) * (2 * j + 1) + (state % 256) * j + 16 * j) % 256]

\* a fill that takes the bytes of a partial word without stepping the generator
RECURSIVE FillBytesKeepsPartialWord(_, _)
FillBytesKeepsPartialWord(state, n) ==
    IF n = 0 THEN [rng |-> state, bytes |-> << >>]
    ELSE LET next == RngStep(state)
             take == Min(n, WordSize)
             rest == FillBytesKeepsPartialWord(IF take = WordSize THEN next ELSE state,
                                               n - take)
         IN  [rng |-> rest.rng,
              bytes |-> SubSeqFrom(RngOutput(next), 0, take) \o rest.bytes]

RECURSIVE FillBytes(_, _)
FillBytes(state, n) ==
    IF n = 0 THEN [rng |-> state, bytes |-> << >>]
    ELSE LET next == RngStep(state)
             take == Min(n, WordSize)
             rest == FillBytes(next, n - take)
         IN  [rng |-> rest.rng,
              bytes |-> SubSeqFrom(RngOutput(next), 0, take) \o rest.bytes]

(* ------------------------------ the codec ------------------------------ *)
\* a generate_chunk that leaves the trailer out of the stream checksum
GenerateChunkPayloadOnly(rng, buffer, write_size, global_hasher) ==
    IF write_size >= TrailerSize
    THEN LET filled == FillBytes(rng, Len(buffer))
             payload == SubSeqFrom(filled.bytes, 0, write_size - TrailerSize)
             hasher == HasherUpdate(HasherNew, payload)
         IN  [rng |-> filled.rng,
              buffer |-> payload \o ToLeBytes(U32(HasherFinalize(hasher)))
                           \o SubSeqFrom(filled.bytes, write_size, Len(buffer)),
              hasher |-> HasherCombine(global_hasher, hasher)]
    ELSE [rng |-> rng,
          buffer |-> Zeros(write_size) \o SubSeqFrom(buffer, write_size, Len(buffer)),
          hasher |-> HasherUpdate(global_hasher, Zeros(write_size))]

\* generate_chunk: the buffer is refilled from the generator and the last four
\* bytes of the written part are replaced by the CRC of the bytes before them
GenerateChunk(rng, buffer, write_size, global_hasher) ==
    IF write_size >= TrailerSize
    THEN LET filled == FillBytes(rng, Len(buffer))
             payload == SubSeqFrom(filled.bytes, 0, write_size - TrailerSize)
             hasher == HasherUpdate(HasherNew, payload)
             combined == HasherCombine(global_hasher, hasher)
             checksum_bytes == ToLeBytes(U32(HasherFinalize(hasher)))
         IN  [rng |-> filled.rng,
              buffer |-> payload \o checksum_bytes
                           \o SubSeqFrom(filled.bytes, write_size, Len(buffer)),
              hasher |-> HasherUpdate(combined, checksum_bytes)]
    ELSE [rng |-> rng,
          buffer |-> Zeros(write_size) \o SubSeqFrom(buffer, write_size, Len(buffer)),
          hasher |-> HasherUpdate(global_hasher, Zeros(write_size))]

(* ------------------------------- the file ------------------------------ *)
OldByte == 255

SetLen(data, n) ==
    [k \in 1..n |-> IF k <= Len(data) THEN data[k] ELSE 0]

\* a write at an offset: a hole before the offset reads as zeros
WriteAt(data, offset, bytes) ==
    [k \in 1..(IF offset + Len(bytes) > Len(data) THEN offset + Len(bytes) ELSE Len(data)) |->
        IF k > offset /\ k <= offset + Len(bytes) THEN bytes[k - offset]
        ELSE IF k <= Len(data) THEN data[k]
        ELSE 0]

(* ------------------------------- state --------------------------------- *)
VARIABLES
    args,       \* the arguments of the running command
    file,       \* the file at the path: [exists, data]
    stdout,     \* the bytes written to the standard output
    gpc,        \* where generate() is
    g,          \* the locals of generate() the workers capture
    gw,         \* the locals of each worker thread of generate(), and late:
                \* the chunk writes the thread began with the flag raised
    cancel,     \* the shared AtomicBool
    chan,       \* the progress channel: the deltas sent and not yet received
    senders,    \* the live Sender handles of the channel
    pbTotal,    \* the position of the progress bar
    gres,       \* the result of generate()
    faults,     \* the I/O errors raised so far
    written,    \* history: the workers that wrote each file offset, in order
    run,        \* history: the parameters of the generate run that exited
    vpc,        \* where validate() is
    v,          \* the locals of validate()
    vw,         \* the locals of each worker thread of validate(), and late:
                \* the chunk reads the thread began after a sibling's error
    vres,       \* the result of validate()
    stdin,      \* the bytes on the standard input of validate
    corrupted   \* history: the offset of the byte changed after the generation

gvars == << args, file, stdout, gpc, g, gw, cancel, chan, senders, pbTotal,
            gres, faults, written, run >>

vvars == << vpc, v, vw, vres, stdin, corrupted >>

vars == << args, file, stdout, gpc, g, gw, cancel, chan, senders, pbTotal,
           gres, faults, written, run, vpc, v, vw, vres, stdin, corrupted >>

MaxLen == MaxChunks * MaxChunkSize

Main == -1

NoResult == [kind |-> "None"]

\* the thread panics: the process aborts instead of returning a result
Panic(what) == [kind |-> "Panic", err |-> [kind |-> what]]

\* u64::is_multiple_of: only 0 is a multiple of 0
IsMultipleOf(a, b) == IF b = 0 THEN a = 0 ELSE a % b = 0

buffer_size == DivCeil(args.chunk_size, WordSize) * WordSize

Workers == 0..(g.num_threads - 1)

(* ---------------------------- generate() ------------------------------- *)
IoError(who) == [kind |-> "Io", worker |-> who]

\* the arguments clap accepts: --position requires a file
GenerateArgs ==
    { a \in [cmd : {"generate"}, seed : 0..MaxSeed, chunk_size : 1..MaxChunkSize,
             size : {NoSize} \cup 0..MaxLen, position : 0..MaxLen,
             no_truncate : BOOLEAN, jobs : 1..MaxJobs, file : BOOLEAN] :
        /\ a.position + (IF a.size = NoSize THEN 0 ELSE a.size) <= MaxChunks * a.chunk_size
        /\ a.position % a.chunk_size \in {0, 1}
        /\ ~a.file => (a.position = 0 /\ ~a.no_truncate /\ a.jobs = 1) }

\* the file before the run: absent, or left by an earlier use
OldFiles(a) ==
    { [exists |-> FALSE, data |-> << >>],
      [exists |-> TRUE, data |-> [k \in 1..(2 * a.chunk_size + 1) |-> OldByte]] }

\* the state in which generate is entered
StartState ==
    /\ file \in OldFiles(args)
    /\ (args.no_truncate => file.exists)
    /\ (~args.file => ~file.exists)
    /\ stdout = << >>
    /\ gpc = "start"
    /\ g = [stream_size |-> 0, num_threads |-> 0, num_chunks |-> 0,
            chunks_per_thread |-> 0, chunk_position |-> 0, joined |-> {}]
    /\ gw = << >>
    /\ cancel = FALSE
    /\ chan = << >>
    /\ senders = {}
    /\ pbTotal = 0
    /\ gres = NoResult
    /\ faults = 0
    /\ written = [o \in 0..(MaxLen - 1) |-> << >>]
    /\ run = [kind |-> "None"]
    /\ vpc = "idle"
    /\ v = [stream_size |-> 0, num_threads |-> 0, num_chunks |-> 0,
            chunks_per_thread |-> 0, bytes |-> 0, checksum |-> 0, joined |-> {}]
    /\ vw = << >>
    /\ vres = NoResult
    /\ stdin = << >>
    /\ corrupted = -1

GenInit ==
    /\ args \in GenerateArgs
    /\ StartState

\* a stream size that defaults to 0 when it cannot be determined
StreamSizeOrZero ==
    IF args.size # NoSize THEN [ok |-> TRUE, size |-> args.size]
    ELSE IF args.file /\ file.exists
         THEN IF args.position > Len(file.data)
              THEN [ok |-> FALSE, err |-> [kind |-> "PositionBeyondFile"]]
              ELSE [ok |-> TRUE, size |-> Len(file.data) - args.position]
         ELSE [ok |-> TRUE, size |-> 0]

\* generate.rs 58-73
StreamSize ==
    IF args.size # NoSize THEN [ok |-> TRUE, size |-> args.size]
    ELSE IF args.file /\ file.exists
         THEN IF args.position > Len(file.data)
              THEN [ok |-> FALSE, err |-> [kind |-> "PositionBeyondFile"]]
              ELSE [ok |-> TRUE, size |-> Len(file.data) - args.position]
         ELSE [ok |-> FALSE, err |-> [kind |-> "SizeUndeterminable"]]

\* a pre-sizing that only ever extends the file
PreSizeExtendOnly(f, stream_size) ==
    LET data == IF f.exists THEN f.data ELSE << >>
        end_position == stream_size + args.position
    IN  [exists |-> TRUE,
         data |-> IF end_position > Len(data) THEN SetLen(data, end_position) ELSE data]

\* generate.rs 84-94: create the file and set its length
PreSize(f, stream_size) ==
    LET data == IF f.exists THEN f.data ELSE << >>
        end_position == stream_size + args.position
    IN  [exists |-> TRUE,
         data |-> IF end_position > Len(data) \/ ~args.no_truncate
                  THEN SetLen(data, end_position)
                  ELSE data]

\* a receive_progress that keeps the coordinator's sender
KeepSender(s) == s

\* lib.rs 137: drop(tx), the coordinator's own sender
DropSender(s) == s \ {Main}

\* generate.rs 47-110 and 151, lib.rs 137: up to the spawn of the threads, each
\* with a clone of the sender, and the drop of the coordinator's own sender;
\* generate.rs 163-169: or up to the loop of the stream mode; generate.rs
\* 97-98: div_ceil panics on a chunk size or a thread count of 0, after the
\* file was created and sized
GenStart ==
    /\ gpc = "start"
    /\ IF ~IsMultipleOf(args.position, args.chunk_size)
       THEN /\ gres' = [kind |-> "Err", err |-> [kind |-> "MisalignedPosition"]]
            /\ gpc' = "done"
            /\ UNCHANGED << file, g, gw, senders >>
       ELSE IF ~StreamSize.ok
       THEN /\ gres' = [kind |-> "Err", err |-> StreamSize.err]
            /\ gpc' = "done"
            /\ UNCHANGED << file, g, gw, senders >>
       ELSE IF args.file /\ (args.chunk_size = 0 \/ args.jobs = 0)
       THEN /\ file' = PreSize(file, StreamSize.size)
            /\ gres' = Panic("DivideByZero")
            /\ gpc' = "done"
            /\ UNCHANGED << g, gw, senders >>
       ELSE IF args.file
       THEN LET stream_size == StreamSize.size
                num_chunks == DivCeil(stream_size, args.chunk_size)
            IN  /\ file' = PreSize(file, stream_size)
                /\ g' = [stream_size |-> stream_size,
                         num_threads |-> args.jobs,
                         num_chunks |-> num_chunks,
                         chunks_per_thread |-> DivCeil(num_chunks, args.jobs),
                         chunk_position |-> args.position \div args.chunk_size,
                         joined |-> {}]
                /\ gw' = [i \in 0..(args.jobs - 1) |->
                            [pc |-> "spawned", rng |-> 0, hasher |-> HasherNew,
                             buffer |-> << >>, chunk |-> 0, end_chunk |-> 0,
                             total_write_size |-> 0, progress_bytes |-> 0,
                             late |-> 0, result |-> NoResult]]
                /\ senders' = DropSender({Main} \cup 0..(args.jobs - 1))
                /\ gpc' = "recv"
                /\ UNCHANGED gres
       ELSE /\ g' = [g EXCEPT !.stream_size = StreamSize.size, !.num_threads = 1]
            /\ gw' = [i \in {0} |->
                        [pc |-> "stdout", rng |-> RngSeed(args.seed),
                         hasher |-> HasherNew,
                         buffer |-> Zeros(args.chunk_size), chunk |-> 0,
                         end_chunk |-> 0, total_write_size |-> 0,
                         progress_bytes |-> 0, late |-> 0, result |-> NoResult]]
            /\ gpc' = "stdout"
            /\ UNCHANGED << file, senders, gres >>
    /\ UNCHANGED << args, stdout, cancel, chan, pbTotal, faults, written, run >>
    /\ UNCHANGED vvars

StartChunk(i) == i * g.chunks_per_thread + g.chunk_position

\* an end chunk one past the range
EndChunkOverlap(i) ==
    Min((i + 1) * g.chunks_per_thread + 1, g.num_chunks) + g.chunk_position

EndChunk(i) == Min((i + 1) * g.chunks_per_thread, g.num_chunks) + g.chunk_position

\* a skip computed from the chunk size instead of the buffer size
AdvanceDeltaUnrounded(start_chunk) == (start_chunk * args.chunk_size) \div WordSize

\* a skip that forgets the start position
AdvanceDeltaNoPosition(start_chunk) ==
    ((start_chunk - g.chunk_position) * buffer_size) \div WordSize

\* generate.rs 120: the number of generator steps the worker skips
AdvanceDelta(start_chunk) == (start_chunk * buffer_size) \div WordSize

\* a worker that takes a first chunk beyond the end of the file for an error
GenOpenRejectsPastEnd(i) ==
    /\ gpc = "recv"
    /\ i \in Workers
    /\ gw[i].pc = "spawned"
    /\ gw' = [gw EXCEPT ![i] =
                IF StartChunk(i) * args.chunk_size > Len(file.data)
                THEN [@ EXCEPT !.pc = "failed"]
                ELSE [@ EXCEPT !.pc = "loop",
                               !.hasher = HasherNew,
                               !.rng = RngAdvance(RngSeed(args.seed),
                                                  AdvanceDelta(StartChunk(i))),
                               !.buffer = Zeros(buffer_size),
                               !.chunk = StartChunk(i),
                               !.end_chunk = EndChunk(i)]]
    /\ UNCHANGED << args, file, stdout, gpc, g, cancel, chan, senders, pbTotal,
                    gres, faults, written, run >>
    /\ UNCHANGED vvars

\* generate.rs 112-122: the worker opens the file and positions itself
GenOpen(i) ==
    /\ gpc = "recv"
    /\ i \in Workers
    /\ gw[i].pc = "spawned"
    /\ gw' = [gw EXCEPT ![i] =
                [@ EXCEPT !.pc = "loop",
                          !.hasher = HasherNew,
                          !.rng = RngAdvance(RngSeed(args.seed), AdvanceDelta(StartChunk(i))),
                          !.buffer = Zeros(buffer_size),
                          !.chunk = StartChunk(i),
                          !.end_chunk = EndChunk(i)]]
    /\ UNCHANGED << args, file, stdout, gpc, g, cancel, chan, senders, pbTotal,
                    gres, faults, written, run >>
    /\ UNCHANGED vvars

\* generate.rs 125-126
WriteSize(chunk) ==
    Min(args.position + g.stream_size - chunk * args.chunk_size, args.chunk_size)

NoteWrite(w, offset, n, i) ==
    [o \in DOMAIN w |-> IF o >= offset /\ o < offset + n THEN Append(w[o], i) ELSE w[o]]

\* generate.rs 123-134: one chunk is generated, written and accounted for
GenChunk(i) ==
    /\ gpc = "recv"
    /\ i \in Workers
    /\ gw[i].pc = "loop"
    /\ gw[i].chunk < gw[i].end_chunk
    /\ LET chunk == gw[i].chunk
           write_size == WriteSize(chunk)
           out == GenerateChunk(gw[i].rng, gw[i].buffer, write_size, gw[i].hasher)
           progress == gw[i].progress_bytes + write_size
           send == chunk % ProgressPeriod = 0
       IN  /\ file' = [file EXCEPT !.data =
                          WriteAt(@, chunk * args.chunk_size,
                                  SubSeqFrom(out.buffer, 0, write_size))]
           /\ written' = NoteWrite(written, chunk * args.chunk_size, write_size, i)
           /\ chan' = IF send THEN Append(chan, progress) ELSE chan
           /\ gw' = [gw EXCEPT ![i] =
                        [@ EXCEPT !.pc = "poll",
                                  !.rng = out.rng,
                                  !.buffer = out.buffer,
                                  !.hasher = out.hasher,
                                  !.total_write_size = @ + write_size,
                                  !.progress_bytes = IF send THEN 0 ELSE progress,
                                  !.late = IF cancel THEN @ + 1 ELSE @]]
    /\ UNCHANGED << args, stdout, gpc, g, cancel, senders, pbTotal, gres, faults, run >>
    /\ UNCHANGED vvars

\* generate.rs 112, 119, 128: an open, a seek or a write fails; a failing
\* write_all may have written the beginning of the chunk
GenIoError(i) ==
    /\ gpc = "recv"
    /\ i \in Workers
    /\ faults < MaxFaults
    /\ \/ /\ gw[i].pc = "spawned"
          /\ gw' = [gw EXCEPT ![i] = [@ EXCEPT !.pc = "failed"]]
          /\ UNCHANGED << file, written >>
       \/ /\ gw[i].pc = "loop"
          /\ gw[i].chunk < gw[i].end_chunk
          /\ LET chunk == gw[i].chunk
                 write_size == WriteSize(chunk)
                 out == GenerateChunk(gw[i].rng, gw[i].buffer, write_size, gw[i].hasher)
                 n == write_size \div 2
             IN     /\ file' = [file EXCEPT !.data =
                                  WriteAt(@, chunk * args.chunk_size,
                                          SubSeqFrom(out.buffer, 0, n))]
                    /\ written' = NoteWrite(written, chunk * args.chunk_size, n, i)
                    /\ gw' = [gw EXCEPT ![i] =
                                [@ EXCEPT !.pc = "failed",
                                          !.late = IF cancel THEN @ + 1 ELSE @]]
    /\ faults' = faults + 1
    /\ UNCHANGED << args, stdout, gpc, g, cancel, chan, senders, pbTotal, gres, run >>
    /\ UNCHANGED vvars

\* a poll that never sees the flag
GenPollIgnoresFlag(i) ==
    /\ gpc = "recv"
    /\ i \in Workers
    /\ gw[i].pc = "poll"
    /\ gw' = [gw EXCEPT ![i] = [@ EXCEPT !.pc = "loop", !.chunk = @ + 1]]
    /\ UNCHANGED << args, file, stdout, gpc, g, cancel, chan, senders, pbTotal,
                    gres, faults, written, run >>
    /\ UNCHANGED vvars

\* generate.rs 135-138: the flag is polled after each chunk
GenPoll(i) ==
    /\ gpc = "recv"
    /\ i \in Workers
    /\ gw[i].pc = "poll"
    /\ IF cancel
       THEN /\ gw' = [gw EXCEPT ![i] =
                        [@ EXCEPT !.pc = "done",
                                  !.result = [kind |-> "Ok",
                                              bytes |-> gw[i].total_write_size,
                                              hasher |-> gw[i].hasher]]]
            /\ senders' = senders \ {i}
       ELSE /\ gw' = [gw EXCEPT ![i] = [@ EXCEPT !.pc = "loop", !.chunk = @ + 1]]
            /\ UNCHANGED senders
    /\ UNCHANGED << args, file, stdout, gpc, g, cancel, chan, pbTotal, gres,
                    faults, written, run >>
    /\ UNCHANGED vvars

\* generate.rs 140-148: the range is exhausted and the thread returns
GenReturn(i) ==
    /\ gpc = "recv"
    /\ i \in Workers
    /\ gw[i].pc = "loop"
    /\ gw[i].chunk >= gw[i].end_chunk
    /\ gw' = [gw EXCEPT ![i] =
                [@ EXCEPT !.pc = "done",
                          !.result = [kind |-> "Ok",
                                      bytes |-> gw[i].total_write_size,
                                      hasher |-> gw[i].hasher]]]
    /\ senders' = senders \ {i}
    /\ UNCHANGED << args, file, stdout, gpc, g, cancel, chan, pbTotal, gres,
                    faults, written, run >>
    /\ UNCHANGED vvars

\* a failed run that raises the flag and returns what it wrote as a success
GenFailSwallowsError(i) ==
    /\ gpc = "recv"
    /\ i \in Workers
    /\ gw[i].pc = "failed"
    /\ cancel' = TRUE
    /\ gw' = [gw EXCEPT ![i] =
                [@ EXCEPT !.pc = "done",
                          !.result = [kind |-> "Ok",
                                      bytes |-> gw[i].total_write_size,
                                      hasher |-> gw[i].hasher]]]
    /\ senders' = senders \ {i}
    /\ UNCHANGED << args, file, stdout, gpc, g, chan, pbTotal, gres, faults, written, run >>
    /\ UNCHANGED vvars

\* generate.rs 142-147: the failed run raises the flag and the thread returns
GenFail(i) ==
    /\ gpc = "recv"
    /\ i \in Workers
    /\ gw[i].pc = "failed"
    /\ cancel' = TRUE
    /\ gw' = [gw EXCEPT ![i] =
                [@ EXCEPT !.pc = "done",
                          !.result = [kind |-> "Err", err |-> IoError(i)]]]
    /\ senders' = senders \ {i}
    /\ UNCHANGED << args, file, stdout, gpc, g, chan, pbTotal, gres, faults, written, run >>
    /\ UNCHANGED vvars

\* lib.rs 140-142: one delta is received
Receive ==
    /\ gpc = "recv"
    /\ chan # << >>
    /\ pbTotal' = pbTotal + Head(chan)
    /\ chan' = Tail(chan)
    /\ UNCHANGED << args, file, stdout, gpc, g, gw, cancel, senders, gres,
                    faults, written, run >>
    /\ UNCHANGED vvars

\* lib.rs 140, 144: recv fails once the channel is empty and has no sender left
Drained ==
    /\ gpc = "recv"
    /\ chan = << >>
    /\ senders = {}
    /\ gpc' = "join"
    /\ UNCHANGED << args, file, stdout, g, gw, cancel, chan, senders, pbTotal,
                    gres, faults, written, run >>
    /\ UNCHANGED vvars

\* the index of the last handle whose thread returned an error, if any
LastErr(w) ==
    IF \E i \in DOMAIN w : w[i].result.kind = "Err"
    THEN CHOOSE i \in DOMAIN w :
            /\ w[i].result.kind = "Err"
            /\ \A j \in DOMAIN w : j > i => w[j].result.kind # "Err"
    ELSE -1

\* the index of the first handle whose thread returned an error, if any
FirstErr(w) ==
    IF \E i \in DOMAIN w : w[i].result.kind = "Err"
    THEN CHOOSE i \in DOMAIN w :
            /\ w[i].result.kind = "Err"
            /\ \A j \in DOMAIN w : j < i => w[j].result.kind # "Err"
    ELSE -1

RECURSIVE SumBytes(_, _)
SumBytes(w, n) == IF n = 0 THEN 0 ELSE SumBytes(w, n - 1) + w[n - 1].result.bytes

\* the partial hashers combined from the last one down
RECURSIVE FoldHashersDescending(_, _)
FoldHashersDescending(w, n) ==
    IF n = 1 THEN w[Cardinality(DOMAIN w) - 1].result.hasher
    ELSE HasherCombine(FoldHashersDescending(w, n - 1),
                       w[Cardinality(DOMAIN w) - n].result.hasher)

\* generate.rs 157-160: the partial hashers are combined from the first on
RECURSIVE FoldHashers(_, _)
FoldHashers(w, n) ==
    IF n = 1 THEN w[0].result.hasher
    ELSE HasherCombine(FoldHashers(w, n - 1), w[n - 1].result.hasher)

\* the handles try_collect takes from the iterator: those up to the first one
\* whose thread returned an error, the others are dropped without a join
JoinedHandles(w) == IF FirstErr(w) # -1 THEN 0..FirstErr(w) ELSE DOMAIN w

\* generate.rs 152-162: the handles are joined in order up to the first error
Join ==
    /\ gpc = "join"
    /\ \A i \in JoinedHandles(gw) : gw[i].pc = "done"
    /\ gres' = IF FirstErr(gw) # -1
               THEN [kind |-> "Err", err |-> gw[FirstErr(gw)].result.err]
               ELSE [kind |-> "Ok",
                     bytes |-> SumBytes(gw, g.num_threads),
                     checksum |-> HasherFinalize(FoldHashers(gw, g.num_threads))]
    /\ g' = [g EXCEPT !.joined = JoinedHandles(gw)]
    /\ gpc' = "done"
    /\ UNCHANGED << args, file, stdout, gw, cancel, chan, senders, pbTotal,
                    faults, written, run >>
    /\ UNCHANGED vvars

\* generate.rs 170-179: the stream mode writes chunk after chunk
GenStdout ==
    /\ gpc = "stdout"
    /\ IF gw[0].total_write_size < g.stream_size
       THEN LET write_size == Min(g.stream_size - gw[0].total_write_size, args.chunk_size)
                out == GenerateChunk(gw[0].rng, gw[0].buffer, write_size, gw[0].hasher)
            IN  /\ stdout' = stdout \o SubSeqFrom(out.buffer, 0, write_size)
                /\ gw' = [gw EXCEPT ![0] =
                            [@ EXCEPT !.rng = out.rng, !.buffer = out.buffer,
                                      !.hasher = out.hasher,
                                      !.total_write_size = @ + write_size]]
                /\ pbTotal' = gw[0].total_write_size + write_size
                /\ UNCHANGED << gpc, gres >>
       ELSE /\ gres' = [kind |-> "Ok", bytes |-> gw[0].total_write_size,
                        checksum |-> HasherFinalize(gw[0].hasher)]
            /\ gpc' = "done"
            /\ UNCHANGED << stdout, gw, pbTotal >>
    /\ UNCHANGED << args, file, g, cancel, chan, senders, faults, written, run >>
    /\ UNCHANGED vvars

\* generate.rs 173: the write to the standard output fails
GenStdoutError ==
    /\ gpc = "stdout"
    /\ faults < MaxFaults
    /\ gw[0].total_write_size < g.stream_size
    /\ faults' = faults + 1
    /\ gres' = [kind |-> "Err", err |-> IoError(Main)]
    /\ gpc' = "done"
    /\ UNCHANGED << args, file, stdout, g, gw, cancel, chan, senders, pbTotal, written, run >>
    /\ UNCHANGED vvars

\* a run of generate in which no I/O call fails
GenNext ==
    \/ GenStart
    \/ \E i \in 0..(MaxJobs - 1) : GenOpen(i)
    \/ \E i \in 0..(MaxJobs - 1) : GenChunk(i)
    \/ \E i \in 0..(MaxJobs - 1) : GenPoll(i)
    \/ \E i \in 0..(MaxJobs - 1) : GenReturn(i)
    \/ Receive
    \/ Drained
    \/ Join
    \/ GenStdout

SpecGen == GenInit /\ [][GenNext]_vars

(* ------------------------------ main() --------------------------------- *)
\* main.rs 23-31: the process exits; the file, the bytes written to the
\* standard output and the reported result outlive it
GenExit ==
    /\ gpc = "done"
    /\ gpc' = "exited"
    /\ run' = [kind |-> gres.kind, seed |-> args.seed, chunk_size |-> args.chunk_size,
               position |-> args.position, stream_size |-> g.stream_size,
               file |-> args.file]
    /\ args' = [cmd |-> "none"]
    /\ g' = [stream_size |-> 0, num_threads |-> 0, num_chunks |-> 0,
             chunks_per_thread |-> 0, chunk_position |-> 0, joined |-> {}]
    /\ gw' = << >>
    /\ cancel' = FALSE
    /\ pbTotal' = 0
    /\ written' = [o \in 0..(MaxLen - 1) |-> << >>]
    /\ UNCHANGED << file, stdout, chan, senders, gres, faults >>
    /\ UNCHANGED vvars

\* the bytes of the generated stream, in the file or on the standard output
Stream == IF file.exists THEN file.data ELSE stdout

CorruptDeltas == {1, 128}

\* between the two commands one byte of the stream is changed
Corrupt ==
    /\ gpc = "exited"
    /\ vpc = "idle"
    /\ corrupted = -1
    /\ \E o \in 0..(Len(Stream) - 1), d \in CorruptDeltas :
          /\ corrupted' = o
          /\ IF file.exists
             THEN /\ file' = [file EXCEPT !.data[o + 1] = (@ + d) % 256]
                  /\ UNCHANGED stdout
             ELSE /\ stdout' = [stdout EXCEPT ![o + 1] = (@ + d) % 256]
                  /\ UNCHANGED file
    /\ UNCHANGED << args, gpc, g, gw, cancel, chan, senders, pbTotal, gres,
                    faults, written, run, vpc, v, vw, vres, stdin >>

(* ---------------------------- validate() ------------------------------- *)
NoExpected == << >>

Unread == << "?" >>

\* the arguments of validate; the chunk size is the one of the generation
ValidateArgs ==
    { a \in [cmd : {"validate"}, file : BOOLEAN, size : {NoSize, MaxChunks * run.chunk_size},
             jobs : 1..MaxJobs, chunk_size : {run.chunk_size},
             expected_checksum : {Unread}] :
        /\ a.chunk_size >= 1
        /\ a.file => file.exists
        /\ ~a.file => (a.jobs = 1 /\ a.size = NoSize) }

\* the value a cast to u64 saturates at, scaled to the integers of the model
U64Max == 2147483647

\* the arguments with --jobs 0, and with --chunk-size 0 on the standard input
ZeroValidateArgs ==
    { a \in [cmd : {"validate"}, file : BOOLEAN, size : {NoSize}, jobs : 0..MaxJobs,
             chunk_size : 0..1, expected_checksum : {Unread}] :
        /\ a.jobs = 0 \/ a.chunk_size = 0
        /\ a.file => (file.exists /\ a.chunk_size # 0)
        /\ ~a.file => a.jobs = 1 }

\* validate.rs 53-54: a quotient of two u64 rounded up in f64; the conversions
\* and the quotient are exact below 2^53; x / 0.0 is infinite and the cast to
\* u64 saturates, 0.0 / 0.0 is not a number and the cast gives 0
F64CeilDiv(a, b) ==
    IF b = 0 THEN (IF a = 0 THEN 0 ELSE U64Max) ELSE DivCeil(a, b)

\* lib.rs 109-119: the bytes read from a cursor on, up to n or to the end
ReadExactOrEof(data, cursor, n) ==
    IF cursor >= Len(data) THEN << >>
    ELSE SubSeqFrom(data, cursor, Min(cursor + n, Len(data)))

\* a validate_chunk that accepts every chunk shorter than a trailer
ValidateChunkAnyTail(chunk, buffer) ==
    LET read_size == Len(buffer) IN
    IF read_size >= TrailerSize
    THEN LET hasher == HasherUpdate(HasherNew,
                                    SubSeqFrom(buffer, 0, read_size - TrailerSize))
             stream_checksum ==
                 FromLeBytes(SubSeqFrom(buffer, read_size - TrailerSize, read_size))
             checksum == U32(HasherFinalize(hasher))
         IN  IF stream_checksum # checksum
             THEN [kind |-> "Err",
                   err |-> [kind |-> "ChecksumMismatch", chunk |-> chunk,
                            expected |-> stream_checksum, found |-> checksum]]
             ELSE [kind |-> "Ok"]
    ELSE [kind |-> "Ok"]

\* a validate_chunk that takes a chunk of no byte for a missing chunk
ValidateChunkRejectsEmpty(chunk, buffer) ==
    LET read_size == Len(buffer) IN
    IF read_size = 0
    THEN [kind |-> "Err", err |-> [kind |-> "UnexpectedEof", chunk |-> chunk]]
    ELSE IF read_size >= TrailerSize
    THEN LET hasher == HasherUpdate(HasherNew,
                                    SubSeqFrom(buffer, 0, read_size - TrailerSize))
             stream_checksum ==
                 FromLeBytes(SubSeqFrom(buffer, read_size - TrailerSize, read_size))
             checksum == U32(HasherFinalize(hasher))
         IN  IF stream_checksum # checksum
             THEN [kind |-> "Err",
                   err |-> [kind |-> "ChecksumMismatch", chunk |-> chunk,
                            expected |-> stream_checksum, found |-> checksum]]
             ELSE [kind |-> "Ok"]
    ELSE IF \E k \in 1..read_size : buffer[k] # 0
         THEN [kind |-> "Err", err |-> [kind |-> "InvalidTrailingBytes"]]
         ELSE [kind |-> "Ok"]

\* validate.rs 140-163
ValidateChunk(chunk, buffer) ==
    LET read_size == Len(buffer) IN
    IF read_size >= TrailerSize
    THEN LET hasher == HasherUpdate(HasherNew,
                                    SubSeqFrom(buffer, 0, read_size - TrailerSize))
             stream_checksum ==
                 FromLeBytes(SubSeqFrom(buffer, read_size - TrailerSize, read_size))
             checksum == U32(HasherFinalize(hasher))
         IN  IF stream_checksum # checksum
             THEN [kind |-> "Err",
                   err |-> [kind |-> "ChecksumMismatch", chunk |-> chunk,
                            expected |-> stream_checksum, found |-> checksum]]
             ELSE [kind |-> "Ok"]
    ELSE IF \E k \in 1..read_size : buffer[k] # 0
         THEN [kind |-> "Err", err |-> [kind |-> "InvalidTrailingBytes"]]
         ELSE [kind |-> "Ok"]

\* validate.rs 38-56 and 85, lib.rs 137: up to the spawn of the threads and the
\* drop of the coordinator's own sender; validate.rs 98-105: or up to the loop
\* of the stream mode
ValBegin(a) ==
    /\ args' = a
    /\ IF a.file
       THEN LET stream_size == IF a.size # NoSize THEN a.size ELSE Len(file.data)
                num_chunks == F64CeilDiv(stream_size, a.chunk_size)
            IN  /\ v' = [stream_size |-> stream_size,
                         num_threads |-> a.jobs,
                         num_chunks |-> num_chunks,
                         chunks_per_thread |-> F64CeilDiv(num_chunks, a.jobs),
                         bytes |-> 0, checksum |-> 0, joined |-> {}]
                /\ vw' = [i \in 0..(a.jobs - 1) |->
                            [pc |-> "spawned", cursor |-> 0, hasher |-> HasherNew,
                             chunk |-> 0, end_chunk |-> 0,
                             total_read_size |-> 0, progress_bytes |-> 0,
                             late |-> 0, result |-> NoResult]]
                /\ senders' = DropSender({Main} \cup 0..(a.jobs - 1))
                /\ vpc' = "recv"
                /\ UNCHANGED stdin
       ELSE /\ v' = [v EXCEPT !.stream_size = 0, !.num_threads = 1]
            /\ vw' = [i \in {0} |->
                        [pc |-> "stdin", cursor |-> 0, hasher |-> HasherNew,
                         chunk |-> 0, end_chunk |-> 0,
                         total_read_size |-> 0, progress_bytes |-> 0,
                         late |-> 0, result |-> NoResult]]
            /\ stdin' = Stream
            /\ vpc' = "stdin"
            /\ UNCHANGED senders
    /\ chan' = << >>
    /\ pbTotal' = 0
    /\ UNCHANGED << file, stdout, gpc, g, gw, cancel, gres, faults, written, run,
                    vres, corrupted >>

ValStart ==
    /\ gpc = "exited"
    /\ vpc = "idle"
    /\ \E a \in ValidateArgs : ValBegin(a)

\* validate is given no worker, or chunks of no byte
ValStartZero ==
    /\ gpc = "exited"
    /\ vpc = "idle"
    /\ \E a \in ZeroValidateArgs : ValBegin(a)

VWorkers == 0..(v.num_threads - 1)

\* validate.rs 62-69: the worker opens the file and seeks to its first chunk
ValOpen(i) ==
    /\ vpc = "recv"
    /\ i \in VWorkers
    /\ vw[i].pc = "spawned"
    /\ vw' = [vw EXCEPT ![i] =
                [@ EXCEPT !.pc = "loop",
                          !.chunk = i * v.chunks_per_thread,
                          !.end_chunk = Min((i + 1) * v.chunks_per_thread, v.num_chunks),
                          !.cursor = i * v.chunks_per_thread * args.chunk_size]]
    /\ UNCHANGED << args, file, stdout, gpc, g, gw, cancel, chan, senders, pbTotal,
                    gres, faults, written, run, vpc, v, vres, stdin, corrupted >>

\* a worker that stops with what it read once another worker has failed
ValChunkCancels(i) ==
    /\ vpc = "recv"
    /\ i \in VWorkers
    /\ vw[i].pc = "loop"
    /\ vw[i].chunk < vw[i].end_chunk
    /\ LET chunk == vw[i].chunk
           buffer == ReadExactOrEof(file.data, vw[i].cursor, args.chunk_size)
           read_size == Len(buffer)
           checked == ValidateChunk(chunk, buffer)
           progress == vw[i].progress_bytes + read_size
           send == chunk % ProgressPeriod = 0
       IN  IF \E j \in VWorkers : vw[j].result.kind = "Err"
           THEN /\ vw' = [vw EXCEPT ![i] =
                            [@ EXCEPT !.pc = "done",
                                      !.result = [kind |-> "Ok",
                                                  bytes |-> vw[i].total_read_size,
                                                  hasher |-> vw[i].hasher]]]
                /\ senders' = senders \ {i}
                /\ UNCHANGED chan
           ELSE IF checked.kind = "Err"
           THEN /\ vw' = [vw EXCEPT ![i] =
                            [@ EXCEPT !.pc = "done", !.cursor = @ + read_size,
                                      !.result = checked]]
                /\ senders' = senders \ {i}
                /\ UNCHANGED chan
           ELSE /\ vw' = [vw EXCEPT ![i] =
                            [@ EXCEPT !.cursor = @ + read_size,
                                      !.hasher = HasherUpdate(@, buffer),
                                      !.total_read_size = @ + read_size,
                                      !.progress_bytes = IF send THEN 0 ELSE progress,
                                      !.chunk = @ + 1]]
                /\ chan' = IF send THEN Append(chan, progress) ELSE chan
                /\ UNCHANGED senders
    /\ UNCHANGED << args, file, stdout, gpc, g, gw, cancel, pbTotal, gres, faults,
                    written, run, vpc, v, vres, stdin, corrupted >>

\* validate.rs 70-79: one chunk is read, validated and accounted for; an
\* invalid chunk ends the thread with the error
ValChunk(i) ==
    /\ vpc = "recv"
    /\ i \in VWorkers
    /\ vw[i].pc = "loop"
    /\ vw[i].chunk < vw[i].end_chunk
    /\ LET chunk == vw[i].chunk
           buffer == ReadExactOrEof(file.data, vw[i].cursor, args.chunk_size)
           read_size == Len(buffer)
           checked == ValidateChunk(chunk, buffer)
           progress == vw[i].progress_bytes + read_size
           send == chunk % ProgressPeriod = 0
           late == IF \E j \in VWorkers : vw[j].result.kind = "Err"
                   THEN vw[i].late + 1 ELSE vw[i].late
       IN  IF checked.kind = "Err"
           THEN /\ vw' = [vw EXCEPT ![i] =
                            [@ EXCEPT !.pc = "done", !.cursor = @ + read_size,
                                      !.late = late, !.result = checked]]
                /\ senders' = senders \ {i}
                /\ UNCHANGED chan
           ELSE /\ vw' = [vw EXCEPT ![i] =
                            [@ EXCEPT !.cursor = @ + read_size,
                                      !.hasher = HasherUpdate(@, buffer),
                                      !.total_read_size = @ + read_size,
                                      !.progress_bytes = IF send THEN 0 ELSE progress,
                                      !.late = late, !.chunk = @ + 1]]
                /\ chan' = IF send THEN Append(chan, progress) ELSE chan
                /\ UNCHANGED senders
    /\ UNCHANGED << args, file, stdout, gpc, g, gw, cancel, pbTotal, gres, faults,
                    written, run, vpc, v, vres, stdin, corrupted >>

\* validate.rs 81: the range is exhausted and the thread returns
ValReturn(i) ==
    /\ vpc = "recv"
    /\ i \in VWorkers
    /\ vw[i].pc = "loop"
    /\ vw[i].chunk >= vw[i].end_chunk
    /\ vw' = [vw EXCEPT ![i] =
                [@ EXCEPT !.pc = "done",
                          !.result = [kind |-> "Ok",
                                      bytes |-> vw[i].total_read_size,
                                      hasher |-> vw[i].hasher]]]
    /\ senders' = senders \ {i}
    /\ UNCHANGED << args, file, stdout, gpc, g, gw, cancel, chan, pbTotal, gres,
                    faults, written, run, vpc, v, vres, stdin, corrupted >>

\* validate.rs 62, 67, 71: an open, a seek or a read fails and the thread
\* returns the error
ValIoError(i) ==
    /\ vpc = "recv"
    /\ i \in VWorkers
    /\ faults < MaxFaults
    /\ \/ vw[i].pc = "spawned"
       \/ vw[i].pc = "loop" /\ vw[i].chunk < vw[i].end_chunk
    /\ vw' = [vw EXCEPT ![i] =
                [@ EXCEPT !.pc = "done",
                          !.late = IF vw[i].pc = "loop"
                                      /\ \E j \in VWorkers : vw[j].result.kind = "Err"
                                   THEN @ + 1 ELSE @,
                          !.result = [kind |-> "Err", err |-> IoError(i)]]]
    /\ senders' = senders \ {i}
    /\ faults' = faults + 1
    /\ UNCHANGED << args, file, stdout, gpc, g, gw, cancel, chan, pbTotal, gres,
                    written, run, vpc, v, vres, stdin, corrupted >>

\* lib.rs 140-142: one delta is received
ValReceive ==
    /\ vpc = "recv"
    /\ chan # << >>
    /\ pbTotal' = pbTotal + Head(chan)
    /\ chan' = Tail(chan)
    /\ UNCHANGED << args, file, stdout, gpc, g, gw, cancel, senders, gres, faults,
                    written, run, vpc, v, vw, vres, stdin, corrupted >>

\* lib.rs 140, 144: recv fails once the channel is empty and has no sender left
ValDrained ==
    /\ vpc = "recv"
    /\ chan = << >>
    /\ senders = {}
    /\ vpc' = "join"
    /\ UNCHANGED << args, file, stdout, gpc, g, gw, cancel, chan, senders, pbTotal,
                    gres, faults, written, run, v, vw, vres, stdin, corrupted >>

\* validate.rs 86-96: the handles are joined in order up to the first error;
\* thread_hashers[0] panics when there is no thread
ValJoin ==
    /\ vpc = "join"
    /\ \A i \in JoinedHandles(vw) : vw[i].pc = "done"
    /\ IF v.num_threads = 0
       THEN /\ vres' = Panic("IndexOutOfBounds")
            /\ vpc' = "done"
            /\ UNCHANGED v
       ELSE IF FirstErr(vw) # -1
       THEN /\ vres' = vw[FirstErr(vw)].result
            /\ vpc' = "done"
            /\ v' = [v EXCEPT !.joined = JoinedHandles(vw)]
       ELSE /\ v' = [v EXCEPT !.bytes = SumBytes(vw, v.num_threads),
                              !.checksum = HasherFinalize(FoldHashers(vw, v.num_threads)),
                              !.joined = JoinedHandles(vw)]
            /\ vpc' = "compare"
            /\ UNCHANGED vres
    /\ UNCHANGED << args, file, stdout, gpc, g, gw, cancel, chan, senders, pbTotal,
                    gres, faults, written, run, vw, stdin, corrupted >>

\* validate.rs 106-120: the stream mode reads chunk after chunk up to the end
ValStdin ==
    /\ vpc = "stdin"
    /\ LET buffer == ReadExactOrEof(stdin, vw[0].cursor, args.chunk_size)
           read_size == Len(buffer)
           checked == ValidateChunk(vw[0].chunk, buffer)
       IN  IF read_size = 0
           THEN /\ v' = [v EXCEPT !.bytes = vw[0].total_read_size,
                                  !.checksum = HasherFinalize(vw[0].hasher)]
                /\ vpc' = "compare"
                /\ UNCHANGED << vw, vres, pbTotal >>
           ELSE IF checked.kind = "Err"
           THEN /\ vres' = checked
                /\ vpc' = "done"
                /\ vw' = [vw EXCEPT ![0] = [@ EXCEPT !.cursor = @ + read_size]]
                /\ UNCHANGED << v, pbTotal >>
           ELSE /\ vw' = [vw EXCEPT ![0] =
                            [@ EXCEPT !.cursor = @ + read_size,
                                      !.hasher = HasherUpdate(@, buffer),
                                      !.total_read_size = @ + read_size,
                                      !.chunk = @ + 1]]
                /\ pbTotal' = vw[0].total_read_size + read_size
                /\ UNCHANGED << v, vpc, vres >>
    /\ UNCHANGED << args, file, stdout, gpc, g, gw, cancel, chan, senders, gres,
                    faults, written, run, stdin, corrupted >>

\* validate.rs 107: the read of the standard input fails
ValStdinError ==
    /\ vpc = "stdin"
    /\ faults < MaxFaults
    /\ faults' = faults + 1
    /\ vres' = [kind |-> "Err", err |-> IoError(Main)]
    /\ vpc' = "done"
    /\ UNCHANGED << args, file, stdout, gpc, g, gw, cancel, chan, senders, pbTotal,
                    gres, written, run, v, vw, stdin, corrupted >>

HexChars == << "0", "1", "2", "3", "4", "5", "6", "7", "8", "9",
               "a", "b", "c", "d", "e", "f" >>

UpperChars == << "0", "1", "2", "3", "4", "5", "6", "7", "8", "9",
                 "A", "B", "C", "D", "E", "F" >>

RECURSIVE Pow16(_)
Pow16(n) == IF n = 0 THEN 1 ELSE 16 * Pow16(n - 1)

\* the number of hexadecimal digits of a value, at least one
RECURSIVE HexLen(_)
HexLen(x) == IF x < 16 THEN 1 ELSE 1 + HexLen(x \div 16)

HexString(x, width, chars) ==
    [k \in 1..width |-> chars[((x \div Pow16(width - k)) % 16) + 1]]

\* format!("{checksum:08x}"): at least eight lower-case digits
Format08x(x) == HexString(x, IF HexLen(x) > 8 THEN HexLen(x) ELSE 8, HexChars)

\* format!("{checksum:x}"): no padding
FormatX(x) == HexString(x, HexLen(x), HexChars)

\* the values of --expected-checksum: none, the checksum that generate
\* reported written in three ways, and another checksum
ExpectedChoices ==
    LET reported == IF gres.kind = "Ok" THEN gres.checksum ELSE 0 IN
    { NoExpected,
      Format08x(reported),
      FormatX(reported),
      HexString(reported, 8, UpperChars),
      Format08x((reported + 1) % (CrcMask + 1)) }

\* validate.rs 122-137: the computed checksum is compared with the expected one
ValFinish ==
    /\ vpc = "compare"
    /\ \E expected \in ExpectedChoices :
          /\ args' = [args EXCEPT !.expected_checksum = expected]
          /\ vres' = IF expected # NoExpected /\ expected # Format08x(v.checksum)
                     THEN [kind |-> "Err",
                           err |-> [kind |-> "ExpectedChecksumMismatch",
                                    expected |-> expected,
                                    actual |-> FormatX(v.checksum)]]
                     ELSE [kind |-> "Ok"]
    /\ vpc' = "done"
    /\ UNCHANGED << file, stdout, gpc, g, gw, cancel, chan, senders, pbTotal, gres,
                    faults, written, run, v, vw, stdin, corrupted >>

\* generate on a new file or to the standard output, with an explicit size
Init ==
    /\ GenInit
    /\ args.position = 0
    /\ args.size # NoSize
    /\ ~args.no_truncate
    /\ ~file.exists

\* generate, then possibly the change of one byte, then validate
Next ==
    \/ GenStart
    \/ \E i \in 0..(MaxJobs - 1) : GenOpen(i)
    \/ \E i \in 0..(MaxJobs - 1) : GenChunk(i)
    \/ \E i \in 0..(MaxJobs - 1) : GenPoll(i)
    \/ \E i \in 0..(MaxJobs - 1) : GenReturn(i)
    \/ Receive
    \/ Drained
    \/ Join
    \/ GenStdout
    \/ GenExit
    \/ Corrupt
    \/ ValStart
    \/ \E i \in 0..(MaxJobs - 1) : ValOpen(i)
    \/ \E i \in 0..(MaxJobs - 1) : ValChunk(i)
    \/ \E i \in 0..(MaxJobs - 1) : ValReturn(i)
    \/ ValReceive
    \/ ValDrained
    \/ ValJoin
    \/ ValStdin
    \/ ValFinish

Spec == Init /\ [][Next]_vars

\* the runs in which I/O calls may fail: the smallest and the largest chunk size
FaultInit ==
    /\ Init
    /\ args.chunk_size \in {1, MaxChunkSize}

\* the two commands when an open, a seek, a read or a write may fail
FaultNext ==
    \/ GenStart
    \/ \E i \in 0..(MaxJobs - 1) : GenOpen(i)
    \/ \E i \in 0..(MaxJobs - 1) : GenChunk(i)
    \/ \E i \in 0..(MaxJobs - 1) : GenIoError(i)
    \/ \E i \in 0..(MaxJobs - 1) : GenPoll(i)
    \/ \E i \in 0..(MaxJobs - 1) : GenReturn(i)
    \/ \E i \in 0..(MaxJobs - 1) : GenFail(i)
    \/ Receive
    \/ Drained
    \/ Join
    \/ GenStdout
    \/ GenStdoutError
    \/ GenExit
    \/ ValStart
    \/ \E i \in 0..(MaxJobs - 1) : ValOpen(i)
    \/ \E i \in 0..(MaxJobs - 1) : ValChunk(i)
    \/ \E i \in 0..(MaxJobs - 1) : ValIoError(i)
    \/ \E i \in 0..(MaxJobs - 1) : ValReturn(i)
    \/ ValReceive
    \/ ValDrained
    \/ ValJoin
    \/ ValStdin
    \/ ValStdinError
    \/ ValFinish

SpecFault == FaultInit /\ [][FaultNext]_vars

\* the arguments clap accepts with --jobs 0 or --chunk-size 0, next to the
\* smallest regular ones
ZeroGenerateArgs ==
    { a \in [cmd : {"generate"}, seed : {0}, chunk_size : 0..1, size : 0..MaxChunks,
             position : 0..1, no_truncate : {FALSE}, jobs : 0..MaxJobs,
             file : BOOLEAN] :
        /\ a.position + a.size <= MaxChunks
        /\ ~a.file => (a.position = 0 /\ a.jobs = 1) }

ZeroInit ==
    /\ args \in ZeroGenerateArgs
    /\ StartState
    /\ ~file.exists

ZeroNext ==
    \/ Next
    \/ ValStartZero

SpecZero == ZeroInit /\ [][ZeroNext]_vars

\* runs with one chunk more than MaxChunks, so that rounding the chunks per
\* thread up leaves the last of three threads without a chunk; chunks of one
\* byte and chunks of a trailer and one byte
RangeGenerateArgs ==
    { a \in [cmd : {"generate"}, seed : {0}, chunk_size : {1, TrailerSize + 1},
             size : 0..MaxLen, position : {0}, no_truncate : {FALSE},
             jobs : 1..MaxJobs, file : BOOLEAN] :
        /\ a.size <= (MaxChunks + 1) * a.chunk_size
        /\ ~a.file => a.jobs = 1 }

RangeInit ==
    /\ args \in RangeGenerateArgs
    /\ StartState
    /\ ~file.exists

SpecRange == RangeInit /\ [][Next]_vars

\* the steps of one worker thread that do not depend on an I/O call failing
GenWorkerStep(i) ==
    GenOpen(i) \/ GenChunk(i) \/ GenPoll(i) \/ GenReturn(i) \/ GenFail(i)

ValWorkerStep(i) == ValOpen(i) \/ ValChunk(i) \/ ValReturn(i)

\* the steps of the thread that runs generate() or validate()
CoordinatorStep ==
    \/ Receive
    \/ Drained
    \/ Join
    \/ ValReceive
    \/ ValDrained
    \/ ValJoin
    \/ ValFinish

\* a step of some thread of the running command
ThreadStep ==
    \/ \E i \in 0..(MaxJobs - 1) : GenWorkerStep(i) \/ ValWorkerStep(i)
    \/ CoordinatorStep

\* the threads are scheduled and every I/O call returns: the command does not
\* stop while one of its threads can take a step
Fairness == WF_vars(ThreadStep)

\* the runs whose termination is checked: the coordination of the threads
\* does not depend on the content of the chunks, so one chunk size and one
\* seed stand for all
LiveInit ==
    /\ Init
    /\ args.chunk_size = 1
    /\ args.seed = 0

SpecLive == LiveInit /\ [][FaultNext]_vars /\ Fairness

(* ------------------------- reference streams --------------------------- *)
\* the bytes one sequential pass writes from a generator state on
RECURSIVE RunFrom(_, _, _)
RunFrom(rng, cs, remaining) ==
    IF remaining = 0 THEN << >>
    ELSE LET write_size == Min(remaining, cs)
             out == GenerateChunk(rng, Zeros(DivCeil(cs, WordSize) * WordSize),
                                  write_size, HasherNew)
         IN  SubSeqFrom(out.buffer, 0, write_size)
                \o RunFrom(out.rng, cs, remaining - write_size)

\* the stream of a file-mode run with one worker
SingleWorkerRun(seed, cs, position, size) ==
    RunFrom(RngAdvance(RngSeed(seed), AdvanceDelta(position \div cs)), cs, size)

\* the stream of a run from position 0
RunFromZero(seed, cs, size) == RunFrom(RngSeed(seed), cs, size)

GenSucceeded == gpc = "done" /\ gres.kind = "Ok"

StreamOffsets == 0..(g.stream_size - 1)

(* ------------------------------ claims --------------------------------- *)
\* C1: a successful file-mode run leaves, at every offset of the stream, the
\* byte a run with one worker leaves there, for every worker count and every
\* interleaving of the workers.
C1_WorkerCountIndependent ==
    (GenSucceeded /\ args.file) =>
        LET ref == SingleWorkerRun(args.seed, args.chunk_size, args.position,
                                   g.stream_size)
        IN  /\ Len(file.data) >= args.position + g.stream_size
            /\ \A o \in StreamOffsets : file.data[args.position + o + 1] = ref[o + 1]

C1_Witness ==
    /\ GenSucceeded
    /\ args.file
    /\ args.jobs = 3
    /\ g.num_chunks = 3
    /\ args.chunk_size = 9
    /\ g.stream_size = 26

\* C6: a run that starts at a position that is a multiple of the chunk size
\* writes, at every offset of its range, the byte that a run from position 0
\* ending at the same offset writes there.
C6_Resume ==
    (GenSucceeded /\ args.file) =>
        LET ref == RunFromZero(args.seed, args.chunk_size,
                               args.position + g.stream_size)
        IN  \A o \in StreamOffsets :
               file.data[args.position + o + 1] = ref[args.position + o + 1]

C6_Witness ==
    /\ GenSucceeded
    /\ args.file
    /\ args.position = 2 * args.chunk_size
    /\ args.chunk_size = 9
    /\ g.stream_size = 7
    /\ args.jobs = 2

\* the least c with c * d >= n
CeilOf(n, d) == CHOOSE c \in 0..n : c * d >= n /\ \A b \in 0..n : b * d >= n => c <= b

\* the chunks the partition gives to worker i
OwnedChunks(i) ==
    LET num_chunks == CeilOf(g.stream_size, args.chunk_size)
        per_worker == CeilOf(num_chunks, g.num_threads)
        shift == args.position \div args.chunk_size
    IN  { k + shift : k \in { c \in 0..(num_chunks - 1) :
                                 i * per_worker <= c /\ c < (i + 1) * per_worker } }

\* C9: worker i writes the chunks of its range of the partition and no other;
\* the ranges are pairwise disjoint and cover the stream, so that no offset of
\* the file is written by two workers and, once the run has succeeded, every
\* offset of the stream has been written once.
C9_Partition ==
    (gpc \in {"recv", "join", "done"} /\ args.file) =>
        /\ \A o \in DOMAIN written :
              /\ Len(written[o]) <= 1
              /\ \A n \in 1..Len(written[o]) :
                    (o \div args.chunk_size) \in OwnedChunks(written[o][n])
        /\ \A i, j \in Workers : i # j => OwnedChunks(i) \cap OwnedChunks(j) = {}
        /\ UNION { OwnedChunks(i) : i \in Workers }
              = { k + args.position \div args.chunk_size :
                    k \in { c \in 0..(MaxChunks - 1) :
                               c * args.chunk_size < g.stream_size } }
        /\ GenSucceeded =>
              \A o \in DOMAIN written :
                 Len(written[o]) = (IF o >= args.position
                                       /\ o < args.position + g.stream_size
                                    THEN 1 ELSE 0)

C9_Witness ==
    /\ GenSucceeded
    /\ args.file
    /\ args.jobs = 2
    /\ g.num_chunks = 2
    /\ args.position = args.chunk_size
    /\ written[args.position] = << 0 >>
    /\ written[args.position + args.chunk_size] = << 1 >>

\* the generator state after n words
RECURSIVE Stepped(_, _)
Stepped(state, n) == IF n = 0 THEN state ELSE Stepped(RngStep(state), n - 1)

BeginsChunk(i) == gw[i].pc = "loop" /\ gw[i].chunk < gw[i].end_chunk

\* C10 as stated: whenever a worker begins to encode chunk k, its generator is
\* k * (buffer_size / 8) words past the seeded state.
C10_Original ==
    (gpc = "recv" /\ args.file) =>
        \A i \in Workers :
           BeginsChunk(i) =>
              gw[i].rng = Stepped(RngSeed(args.seed),
                                  gw[i].chunk * (buffer_size \div WordSize))

\* the bytes of chunk k as a function of the seed, the chunk size, k and the
\* write size alone
ChunkContent(seed, cs, k, write_size) ==
    LET words == DivCeil(cs, WordSize)
        out == GenerateChunk(Stepped(RngSeed(seed), k * words),
                             Zeros(words * WordSize), write_size, HasherNew)
    IN  SubSeqFrom(out.buffer, 0, write_size)

\* C10 amended: the alignment holds when the chunk size is at least 4 (a chunk
\* shorter than 4 bytes is zero-filled and draws nothing from the generator),
\* and for every chunk size the bytes of a written chunk are a function of the
\* seed, the chunk size, the chunk index and the write size.
C10_Alignment ==
    (gpc = "recv" /\ args.file) =>
        \A i \in Workers :
           /\ (BeginsChunk(i) /\ args.chunk_size >= TrailerSize) =>
                 gw[i].rng = Stepped(RngSeed(args.seed),
                                     gw[i].chunk * (buffer_size \div WordSize))
           /\ gw[i].pc = "poll" =>
                 LET k == gw[i].chunk
                     ws == WriteSize(k)
                 IN  SubSeqFrom(file.data, k * args.chunk_size,
                                k * args.chunk_size + ws)
                        = ChunkContent(args.seed, args.chunk_size, k, ws)

C10_Witness ==
    /\ gpc = "recv"
    /\ args.file
    /\ args.chunk_size = 9
    /\ args.jobs = 2
    /\ args.position = 9
    /\ BeginsChunk(1)
    /\ gw[1].chunk = 2
    /\ gw[0].pc = "poll"

\* the bytes validate reads
Input == IF args.file THEN file.data ELSE stdin

ChunkOf(offset) == offset \div args.chunk_size

\* the length of chunk k of the input
ChunkLen(k) == Min(args.chunk_size, Len(Input) - k * args.chunk_size)

ValidateDone == vpc = "done"

NoChunkError ==
    vres.kind = "Ok" \/ vres.err.kind = "ExpectedChecksumMismatch"

\* C2: a stream generated for any seed, chunk size, worker count and size, then
\* validated unchanged with the same chunk size and any worker count, passes:
\* no chunk is reported invalid, and the run succeeds when no expected
\* checksum is given.
C2_RoundTrip ==
    /\ (vpc \in {"recv", "join"} /\ corrupted = -1) =>
          \A i \in VWorkers : vw[i].result.kind # "Err"
    /\ (ValidateDone /\ corrupted = -1) =>
          /\ NoChunkError
          /\ args.expected_checksum = NoExpected => vres.kind = "Ok"

C2_Witness ==
    /\ ValidateDone
    /\ corrupted = -1
    /\ vres.kind = "Ok"
    /\ args.expected_checksum = NoExpected
    /\ args.file
    /\ args.jobs = 2
    /\ args.chunk_size = 9
    /\ v.bytes = 21
    /\ run.file

\* C3: the partial checksums of the workers, combined in ascending worker
\* order, give the CRC that one sequential pass over the stream gives, in
\* generate and in validate.
C3_CombineIsSequential ==
    /\ (gpc = "done" /\ gres.kind = "Ok" /\ args.file) =>
          /\ gres.bytes = g.stream_size
          /\ gres.checksum =
                CrcUpdate(0, SubSeqFrom(file.data, args.position,
                                        args.position + g.stream_size))
    /\ (vpc = "compare" /\ args.file) =>
          /\ v.bytes <= Len(file.data)
          /\ v.checksum = CrcUpdate(0, SubSeqFrom(file.data, 0, v.bytes))

C3_Witness ==
    /\ vpc = "compare"
    /\ args.file
    /\ args.jobs = 3
    /\ v.num_chunks = 3
    /\ args.chunk_size = 9
    /\ v.bytes = 26
    /\ \A i \in VWorkers : vw[i].result.bytes > 0

\* C4: after the change of one byte in a chunk of at least 4 bytes, payload or
\* trailer, validate fails with the checksum mismatch of the chunk that holds
\* the byte, for every worker count.
C4_CorruptionDetected ==
    (ValidateDone /\ corrupted # -1 /\ ChunkLen(ChunkOf(corrupted)) >= TrailerSize) =>
        /\ vres.kind = "Err"
        /\ vres.err.kind = "ChecksumMismatch"
        /\ vres.err.chunk = ChunkOf(corrupted)

C4_Witness ==
    /\ ValidateDone
    /\ corrupted = 2 * args.chunk_size + ChunkLen(2) - 2
    /\ ChunkLen(2) >= 5
    /\ args.file
    /\ args.jobs = 3
    /\ vres.kind = "Err"
    /\ vres.err.chunk = 2

FinalLen == Len(Input) % args.chunk_size

FinalChunk == SubSeqFrom(Input, Len(Input) - FinalLen, Len(Input))

\* C5: when the stream length modulo the chunk size is 1, 2 or 3, generate
\* writes zeros in the final chunk; validate accepts a final chunk of fewer
\* than 4 bytes if and only if all its bytes are zero, and rejects it with the
\* invalid trailing bytes error otherwise.
C5_ShortTail ==
    /\ (gpc = "done" /\ gres.kind = "Ok" /\ g.stream_size % args.chunk_size \in 1..3) =>
          \A o \in (g.stream_size - (g.stream_size % args.chunk_size))..(g.stream_size - 1) :
             Stream[args.position + o + 1] = 0
    /\ (ValidateDone /\ FinalLen \in 1..3
           /\ (corrupted = -1 \/ corrupted >= Len(Input) - FinalLen)) =>
          IF \E k \in 1..FinalLen : FinalChunk[k] # 0
          THEN vres = [kind |-> "Err", err |-> [kind |-> "InvalidTrailingBytes"]]
          ELSE NoChunkError

C5_Witness ==
    /\ ValidateDone
    /\ FinalLen = 3
    /\ args.chunk_size = 9
    /\ Len(Input) = 21
    /\ corrupted = 19
    /\ args.file
    /\ args.jobs = 2
    /\ vres.kind = "Err"
    /\ vres.err.kind = "InvalidTrailingBytes"

\* the value a string of hexadecimal digits denotes
HexValue(c) ==
    CHOOSE d \in 0..15 : HexChars[d + 1] = c \/ UpperChars[d + 1] = c

RECURSIVE ParseHex(_)
ParseHex(str) ==
    IF str = << >> THEN 0
    ELSE 16 * ParseHex(SubSeqFrom(str, 0, Len(str) - 1)) + HexValue(str[Len(str)])

\* C7: when an expected checksum is given, validate succeeds if and only if
\* the checksum it computed equals it, and otherwise returns the expected
\* checksum mismatch with both values; the comparison comes after every chunk
\* was found valid.
C7_ExpectedGate ==
    (ValidateDone /\ args.expected_checksum \notin {NoExpected, Unread}) =>
        /\ \A i \in DOMAIN vw : vw[i].result.kind # "Err"
        /\ vres.kind = "Ok" <=> ParseHex(args.expected_checksum) = v.checksum
        /\ vres.kind = "Err" =>
              /\ vres.err.kind = "ExpectedChecksumMismatch"
              /\ vres.err.expected = args.expected_checksum
              /\ ParseHex(vres.err.actual) = v.checksum

\* C8: the checksum and the byte count that generate reported are those that
\* validate computes over the bytes generate wrote, with files and any worker
\* counts and with the standard streams.
C8_ReportedChecksum ==
    (vpc = "compare" /\ corrupted = -1 /\ gres.kind = "Ok") =>
        /\ v.checksum = gres.checksum
        /\ v.bytes = gres.bytes

C8_Witness ==
    /\ vpc = "compare"
    /\ corrupted = -1
    /\ gres.kind = "Ok"
    /\ run.file
    /\ args.file
    /\ args.jobs = 3
    /\ args.chunk_size = 9
    /\ v.bytes = 22

\* C11: in validate, the failure of a worker on a chunk raises the shared
\* cancellation flag, and a sibling that polls it once per chunk begins at most
\* one more chunk after the failure instead of completing its range.
C11_ValidateCancels ==
    (vpc \in {"recv", "join", "done"} /\ args.file) =>
        \A i \in VWorkers :
           /\ vw[i].result.kind = "Err" => cancel
           /\ vw[i].late <= 1

GenRunning == gpc \in {"recv", "join", "done"} /\ args.file

\* the offsets at which worker i has written
WrittenBy(w, i) == { o \in DOMAIN w : \E n \in 1..Len(w[o]) : w[o][n] = i }

GenWorkerFailed(i) == gw[i].pc = "failed" \/ gw[i].result.kind = "Err"

\* C12: in generate, the flag is raised only by a worker whose run failed and
\* stays raised until the run ends; with the flag raised every worker begins at
\* most one more chunk write before it returns; a worker that failed writes
\* nothing afterwards.
C12_CancelFlag ==
    /\ [](GenRunning =>
            /\ cancel => \E i \in Workers : gw[i].result.kind = "Err"
            /\ \A i \in Workers : gw[i].late <= 1)
    /\ [][(GenRunning /\ gpc' # "exited") =>
            /\ cancel => cancel'
            /\ (~cancel /\ cancel') =>
                  \E i \in Workers : gw[i].pc = "failed" /\ gw'[i].result.kind = "Err"
            /\ \A i \in Workers :
                  GenWorkerFailed(i) => WrittenBy(written', i) = WrittenBy(written, i)]_vars

C12_Witness ==
    /\ gpc = "done"
    /\ args.file
    /\ args.jobs = 2
    /\ g.num_chunks = 3
    /\ cancel
    /\ gw[1].result.kind = "Err"
    /\ gw[0].result.kind = "Ok"
    /\ gw[0].late = 1
    /\ gw[0].result.bytes = args.chunk_size

\* the workers whose thread returned an error
Failing(w) == { i \in DOMAIN w : w[i].result.kind = "Err" }

\* C13: when one or more workers failed, the file-mode run of generate or of
\* validate returns an error, and it is the error of the failing worker that no
\* failing worker precedes; a run that reports bytes and a checksum has no
\* failed worker.
C13_FirstErrorByIndex ==
    /\ (gpc = "done" /\ args.file /\ Failing(gw) # {}) =>
          /\ gres.kind = "Err"
          /\ \E i \in Failing(gw) :
                /\ gres.err = gw[i].result.err
                /\ \A j \in Failing(gw) : i <= j
    /\ (gpc = "done" /\ args.file /\ gres.kind = "Ok") => Failing(gw) = {}
    /\ (vpc = "done" /\ args.file /\ Failing(vw) # {}) =>
          /\ vres.kind = "Err"
          /\ \E i \in Failing(vw) :
                /\ vres = vw[i].result
                /\ \A j \in Failing(vw) : i <= j
    /\ (vpc = "compare" /\ args.file) => Failing(vw) = {}

C13_Witness ==
    /\ vpc = "done"
    /\ args.file
    /\ args.jobs = 3
    /\ Failing(vw) = {1, 2}
    /\ vres = vw[1].result
    /\ vres.err.kind = "ChecksumMismatch"
    /\ vw[2].result.err.kind = "Io"
    /\ gres.kind = "Err"
    /\ gres.err = IoError(1)

\* C14: when the file-mode run of generate or of validate returns, with or
\* without a failed worker, every worker thread has been joined and none is
\* still running.
C14_AllJoined ==
    /\ (gpc = "done" /\ args.file) =>
          /\ g.joined = Workers
          /\ \A i \in Workers : gw[i].pc = "done"
    /\ (vpc \in {"compare", "done"} /\ args.file) =>
          /\ v.joined = VWorkers
          /\ \A i \in VWorkers : vw[i].pc = "done"

\* C15: the coordinator has dropped its own sender when it drains; the drain
\* ends only once every worker has dropped its sender and the channel is empty;
\* and every file-mode run of generate and of validate that has spawned its
\* workers returns, whether the workers succeed, fail or stop early.
C15_DrainLiveness ==
    /\ []((gpc = "recv" \/ vpc = "recv") => Main \notin senders)
    /\ [][(gpc = "recv" /\ gpc' = "join") =>
            (chan = << >> /\ \A i \in Workers : gw[i].pc = "done" /\ i \notin senders)]_vars
    /\ [][(vpc = "recv" /\ vpc' = "join") =>
            (chan = << >> /\ \A i \in VWorkers : vw[i].pc = "done" /\ i \notin senders)]_vars
    /\ (gpc = "recv") ~> (gpc = "done")
    /\ (vpc = "recv") ~> (vpc = "done")

C15_Witness ==
    /\ vpc = "done"
    /\ args.file
    /\ args.jobs = 3
    /\ vres.kind = "Err"
    /\ vw[1].result.kind = "Err"
    /\ vw[0].result.kind = "Ok"
    /\ vw[2].result.kind = "Ok"
    /\ gres.kind = "Err"
    /\ faults = 2

Misaligned == args.position % args.chunk_size # 0

Undeterminable == args.size = NoSize /\ (~args.file \/ ~file.exists)

\* C16: when the start position is not a multiple of the chunk size, or no size
\* is given and the output file is absent or no file is given, generate returns
\* an error in its first step: the file is neither created, resized nor
\* written, nothing goes to the standard output and no worker is spawned.
C16_UpFrontValidation ==
    [][(gpc = "start" /\ (Misaligned \/ Undeterminable)) =>
          /\ gpc' = "done"
          /\ gres'.kind = "Err"
          /\ gres'.err.kind = (IF Misaligned THEN "MisalignedPosition"
                                ELSE "SizeUndeterminable")
          /\ file' = file
          /\ stdout' = stdout
          /\ written' = written
          /\ gw' = << >>
          /\ senders' = {}]_vars

C16_Witness ==
    /\ gpc = "done"
    /\ gres.kind = "Err"
    /\ gres.err.kind = "SizeUndeterminable"
    /\ args.file
    /\ args.jobs = 2
    /\ ~file.exists
    /\ gw = << >>

\* C17: before any worker is spawned the file exists and its length is
\* position + stream_size if that exceeds the length it had or truncation was
\* not disabled, and the length it had otherwise; so the file is at least
\* position + stream_size long when the workers start, and no write of a
\* worker changes its length.
C17_PreSizing ==
    /\ [][(gpc = "start" /\ gpc' = "recv") =>
            LET old == IF file.exists THEN Len(file.data) ELSE 0
                end_position == args.position + g'.stream_size
            IN  /\ file'.exists
                /\ Len(file'.data) = (IF end_position > old \/ ~args.no_truncate
                                      THEN end_position ELSE old)
                /\ Len(file'.data) >= end_position
                /\ \A i \in DOMAIN gw' : gw'[i].pc = "spawned"]_vars
    /\ [][gpc = "recv" => Len(file'.data) = Len(file.data)]_vars

C17_Witness ==
    /\ gpc = "done"
    /\ gres.kind = "Ok"
    /\ args.file
    /\ args.no_truncate
    /\ args.jobs = 2
    /\ g.num_chunks = 2
    /\ args.position = 0
    /\ Len(file.data) = 2 * args.chunk_size + 1
    /\ g.stream_size = 2 * args.chunk_size

ZeroArgument == args.jobs = 0 \/ args.chunk_size = 0

\* C18: generate and validate reject a worker count of 0 and a chunk size of 0
\* with an error returned to the caller, before anything else: no panic (a
\* division by zero, an index out of bounds) and no loop that never ends.
C18_ZeroRejected ==
    /\ (args.cmd = "generate" /\ gpc # "start" /\ ZeroArgument) =>
          (gpc = "done" /\ gres.kind = "Err")
    /\ (args.cmd = "validate" /\ ZeroArgument) =>
          (vpc = "done" /\ vres.kind = "Err")

\* the chunks of a byte sequence that one validate_chunk call rejects
InvalidChunks(bytes, cs) ==
    { k \in 0..(DivCeil(Len(bytes), cs) - 1) :
        ValidateChunk(k, SubSeqFrom(bytes, k * cs, Min((k + 1) * cs, Len(bytes)))).kind
            = "Err" }

LowestOf(S) == CHOOSE k \in S : \A j \in S : k <= j

\* the outcome of one pass over a byte sequence, chunk after chunk from
\* chunk 0 on
SequentialOutcome(bytes, cs) ==
    IF InvalidChunks(bytes, cs) = {}
    THEN [kind |-> "Ok", bytes |-> Len(bytes), checksum |-> CrcUpdate(0, bytes)]
    ELSE LET k == LowestOf(InvalidChunks(bytes, cs))
         IN  ValidateChunk(k, SubSeqFrom(bytes, k * cs, Min((k + 1) * cs, Len(bytes))))

\* validate reads its input up to the end: the standard input, or a file
\* given without --size
ReadsToTheEnd == args.cmd = "validate" /\ (~args.file \/ args.size = NoSize)

\* C19: with no file argument generate writes to the standard output the
\* bytes, and reports the byte count and the checksum, that the file mode
\* gives for the same seed, chunk size and size, also when the chunk size is
\* not a multiple of 8; validate on the standard input numbers the chunks
\* 0, 1, 2, ... in read order and ends as one pass over the same bytes ends,
\* which is also how the file mode ends, with any number of workers: the same
\* byte count and checksum, or the error of the first invalid chunk.
C19_StreamEqualsFile ==
    /\ (GenSucceeded /\ args.cmd = "generate") =>
          LET ref == SingleWorkerRun(args.seed, args.chunk_size, 0, g.stream_size)
          IN  /\ (IF args.file THEN file.data ELSE stdout) = ref
              /\ gres.bytes = Len(ref)
              /\ gres.checksum = CrcUpdate(0, ref)
    /\ (vpc = "stdin" /\ ReadsToTheEnd) =>
          /\ vw[0].cursor = Min(vw[0].chunk * args.chunk_size, Len(Input))
          /\ \A k \in 0..(vw[0].chunk - 1) : k \notin InvalidChunks(Input, args.chunk_size)
    /\ (vpc = "compare" /\ ReadsToTheEnd) =>
          [kind |-> "Ok", bytes |-> v.bytes, checksum |-> v.checksum]
              = SequentialOutcome(Input, args.chunk_size)
    /\ (vpc = "done" /\ ReadsToTheEnd /\ vres.kind = "Err"
           /\ vres.err.kind # "ExpectedChecksumMismatch") =>
          vres = SequentialOutcome(Input, args.chunk_size)

C19_Witness ==
    /\ vpc = "done"
    /\ ~args.file
    /\ ~run.file
    /\ args.chunk_size = 9
    /\ run.stream_size = 21
    /\ vres.kind = "Err"
    /\ vres.err.kind = "ChecksumMismatch"
    /\ vres.err.chunk = 1

\* worker i of n threads has no chunk: its first chunk is not below num_chunks
EmptyRange(i, r) == i * r.chunks_per_thread >= r.num_chunks

\* the byte total of the workers that have a chunk
RECURSIVE SumBytesOfWorking(_, _, _)
SumBytesOfWorking(w, n, r) ==
    IF n = 0 THEN 0
    ELSE SumBytesOfWorking(w, n - 1, r)
            + (IF EmptyRange(n - 1, r) THEN 0 ELSE w[n - 1].result.bytes)

\* the partial checksums of the workers that have a chunk, combined in
\* ascending order from the state of an empty input on
RECURSIVE FoldHashersOfWorking(_, _, _)
FoldHashersOfWorking(w, n, r) ==
    IF n = 0 THEN HasherNew
    ELSE IF EmptyRange(n - 1, r) THEN FoldHashersOfWorking(w, n - 1, r)
    ELSE HasherCombine(FoldHashersOfWorking(w, n - 1, r), w[n - 1].result.hasher)

IdentityPartial == [kind |-> "Ok", bytes |-> 0, hasher |-> HasherNew]

\* C20: a worker without a chunk (more workers than chunks, or a first chunk
\* at or past num_chunks once the chunks per worker are rounded up) writes no
\* byte in generate and reads none in validate, does not fail, and returns 0
\* bytes and the hasher of the empty input; the byte total and the checksum of
\* the run are those of the merge of the other workers alone.
C20_EmptyRange ==
    /\ (args.cmd = "generate" /\ args.file /\ gpc \in {"recv", "join", "done"}) =>
          \A i \in Workers :
              EmptyRange(i, g) =>
                  /\ WrittenBy(written, i) = {}
                  /\ gw[i].total_write_size = 0
                  /\ gw[i].pc # "failed"
                  /\ gw[i].result.kind # "Err"
                  /\ gw[i].pc = "done" => gw[i].result = IdentityPartial
    /\ (GenSucceeded /\ args.cmd = "generate" /\ args.file) =>
          /\ gres.bytes = SumBytesOfWorking(gw, g.num_threads, g)
          /\ gres.checksum = HasherFinalize(FoldHashersOfWorking(gw, g.num_threads, g))
    /\ (args.cmd = "validate" /\ args.file /\ vpc \in {"recv", "join", "compare", "done"}) =>
          \A i \in VWorkers :
              EmptyRange(i, v) =>
                  /\ vw[i].total_read_size = 0
                  /\ vw[i].cursor \in {0, i * v.chunks_per_thread * args.chunk_size}
                  /\ vw[i].result.kind # "Err"
                  /\ vw[i].pc = "done" => vw[i].result = IdentityPartial
    /\ (args.cmd = "validate" /\ args.file /\ vpc = "compare") =>
          /\ v.bytes = SumBytesOfWorking(vw, v.num_threads, v)
          /\ v.checksum = HasherFinalize(FoldHashersOfWorking(vw, v.num_threads, v))

\* four chunks for three workers: two chunks each for the first two, none for
\* the third
C20_Witness ==
    /\ GenSucceeded
    /\ args.cmd = "generate"
    /\ args.file
    /\ args.jobs = 3
    /\ args.chunk_size = TrailerSize + 1
    /\ g.num_chunks = 4
    /\ g.chunks_per_thread = 2
    /\ EmptyRange(2, g)
    /\ gw[2].result = IdentityPartial
    /\ gres.bytes = 18

\* the chunks of the range of worker i
RangeOf(i) == StartChunk(i)..(EndChunk(i) - 1)

\* worker i has written the whole of chunk c
WroteChunk(i, c) ==
    \A o \in (c * args.chunk_size)..(c * args.chunk_size + WriteSize(c) - 1) :
        o \in WrittenBy(written, i)

\* worker i returned a partial result without having written its whole range
StoppedEarly(i) ==
    /\ gw[i].result.kind = "Ok"
    /\ \E c \in RangeOf(i) : ~WroteChunk(i, c)

\* C21: when file-mode generate returns success no worker stopped early:
\* the flag was never raised, every worker wrote every chunk of its range,
\* every offset of the stream was written exactly once and the reported byte
\* total is the stream length; a worker that stopped early with an Ok
\* partial result is found only in a run that returns an error.
C21_SuccessIsComplete ==
    /\ (GenSucceeded /\ args.cmd = "generate" /\ args.file) =>
          /\ ~cancel
          /\ \A i \in Workers : ~StoppedEarly(i) /\ gw[i].late = 0
          /\ \A o \in StreamOffsets : Len(written[args.position + o]) = 1
          /\ gres.bytes = g.stream_size
    /\ (gpc = "done" /\ args.cmd = "generate" /\ args.file
           /\ \E i \in Workers : StoppedEarly(i)) =>
          gres.kind = "Err"

C21_Witness ==
    /\ gpc = "done"
    /\ args.cmd = "generate"
    /\ args.file
    /\ args.jobs = 2
    /\ gres.kind = "Err"
    /\ gres.err = IoError(1)
    /\ StoppedEarly(0)
    /\ gw[0].total_write_size > 0

\* the bytes of chunk k of the file
ChunkBytes(k) ==
    SubSeqFrom(file.data, Min(k * args.chunk_size, Len(file.data)),
               Min((k + 1) * args.chunk_size, Len(file.data)))

\* the chunks of the validated stream that validate_chunk rejects
InvalidInFile ==
    { k \in 0..(v.num_chunks - 1) : ValidateChunk(k, ChunkBytes(k)).kind = "Err" }

ChunkErrors == {"ChecksumMismatch", "InvalidTrailingBytes"}

\* C22: the chunk error of file-mode validate is a function of the content of
\* the file, of the chunk size and of the size: for every worker count and
\* every interleaving of the workers, a run that fails on a chunk reports the
\* error of the invalid chunk of least index, and a run in which no read
\* fails reports it whenever the stream has an invalid chunk.
C22_LeastInvalidChunk ==
    /\ (vpc = "done" /\ args.cmd = "validate" /\ args.file /\ vres.kind = "Err"
           /\ vres.err.kind \in ChunkErrors) =>
          /\ InvalidInFile # {}
          /\ vres = ValidateChunk(LowestOf(InvalidInFile),
                                  ChunkBytes(LowestOf(InvalidInFile)))
          /\ vres.err.kind = "ChecksumMismatch" =>
                vres.err.chunk = LowestOf(InvalidInFile)
    /\ (vpc \in {"compare", "done"} /\ args.cmd = "validate" /\ args.file
           /\ InvalidInFile # {}) =>
          (vpc = "done" /\ vres.kind = "Err" /\ vres.err.kind \in ChunkErrors \cup {"Io"})

\* two invalid chunks in the ranges of two workers, the one of higher index
\* found first
C22_Witness ==
    /\ vpc = "done"
    /\ args.cmd = "validate"
    /\ args.file
    /\ args.jobs = 3
    /\ vres.kind = "Err"
    /\ vres.err.kind = "ChecksumMismatch"
    /\ vres.err.chunk = 0
    /\ 2 \in InvalidInFile
    /\ vw[2].result.kind = "Err"
    /\ vw[0].late > 0

\* worker i is about to read a chunk of its range that lies beyond the end of
\* the file
ReadsPastEnd(i) ==
    /\ vpc = "recv"
    /\ args.file
    /\ vw[i].pc = "loop"
    /\ vw[i].chunk < vw[i].end_chunk
    /\ vw[i].cursor >= Len(file.data)

\* C23: in file-mode validate a chunk whose read returns no byte, the file
\* being shorter than the stream length, passes as a tail of fewer than four
\* zero bytes: the worker goes on to its next chunk with its byte count, its
\* hasher and its cursor unchanged; no worker fails on a chunk that begins at
\* or after the end of the file; the validated byte total is the length of
\* the part of the file inside the stream, which may be less than the stream
\* length of a run that succeeds.
C23_ShortFile ==
    /\ []((args.cmd = "validate" /\ args.file /\ vpc \in {"recv", "join", "compare", "done"}) =>
            \A i \in VWorkers :
                vw[i].result.kind = "Err" =>
                    vw[i].chunk * args.chunk_size < Len(file.data))
    /\ []((args.cmd = "validate" /\ args.file /\ vpc = "compare") =>
            v.bytes = Min(Len(file.data), v.num_chunks * args.chunk_size))
    /\ [][\A i \in VWorkers :
            (ReadsPastEnd(i) /\ vw'[i] # vw[i]) =>
                /\ vw'[i].pc = "loop"
                /\ vw'[i].chunk = vw[i].chunk + 1
                /\ vw'[i].total_read_size = vw[i].total_read_size
                /\ vw'[i].hasher = vw[i].hasher
                /\ vw'[i].cursor = vw[i].cursor
                /\ vw'[i].result = vw[i].result]_vars

\* a file of one chunk validated as a stream of MaxChunks chunks by three
\* workers: the run succeeds on fewer bytes than the stream length
C23_Witness ==
    /\ vpc = "done"
    /\ args.cmd = "validate"
    /\ args.file
    /\ args.jobs = 3
    /\ args.size # NoSize
    /\ vres.kind = "Ok"
    /\ v.bytes > 0
    /\ v.bytes < v.stream_size
    /\ vw[2].chunk = 3
    /\ vw[2].total_read_size = 0

====
